---- MODULE Spec2Model ----
(***************************************************************************)
(* Diagram store and mutator of sw-parcial (DiagramsService): diagrams     *)
(* with an owner, a shared-with set and a nested JSON document, the        *)
(* access check of findOne, and the partial-mutation operations.           *)
(*                                                                         *)
(* A JSON object is a function from the keys it has to their values, so a  *)
(* key that is absent is absent from the DOMAIN; a JSON array is a         *)
(* sequence (index i of the code is index i + 1 here).                     *)
(***************************************************************************)
EXTENDS Integers, Sequences, FiniteSets, TLC

VARIABLES
  diagrams,   \* the rows of the diagram table, by id
  last,       \* the last call that ran to its end, and how it ended
  calls,      \* the number of calls made
  inflight,   \* per concurrent request: the call between its read and its save
  writes      \* the concurrent requests that saved, in the order of their saves

vars == <<diagrams, last, calls, inflight, writes>>

(***************************************************************************)
(* Bounds of the model.                                                    *)
(***************************************************************************)
MaxCalls == 3
MaxDiagrams == 1

(***************************************************************************)
(* Inputs.                                                                 *)
(***************************************************************************)
Users == {1, 2, 3}
Procs == {1, 2}
Creators == {1, 2}
ShareTargets == Users \cup {0}
DiagramIds == 1..MaxDiagrams
ClassIds == {"A", "B"}
RelationIds == {"R1", "R2"}
AttrIndexes == {-1, 0, 1, 3}

EmptyObject == [k \in {} |-> k]

P0 == [x |-> 0, y |-> 0]
P5 == [x |-> 5, y |-> 5]
a0 == [name |-> "a0", type |-> "number"]
a1 == [name |-> "a1", type |-> "number"]
a2 == [name |-> "a2", type |-> "number"]
speed == [name |-> "speed", type |-> "number"]

EmptyContent == EmptyObject
SampleContent ==
  [elements |->
     [A |-> [name |-> "Car", position |-> P0, attributes |-> <<a0, a1, a2>>],
      B |-> [name |-> "Wheel", position |-> P0, attributes |-> <<>>],
      C |-> [name |-> "Road", position |-> P0, attributes |-> <<>>]],
   relations |->
     [R1 |-> [from |-> "A", to |-> "B", type |-> "assoc"],
      R2 |-> [from |-> "C", to |-> "A", type |-> "assoc"],
      R3 |-> [from |-> "B", to |-> "C", type |-> "assoc"]]]

CreateDiagramDto ==
  {[name |-> "d", content |-> EmptyContent],
   [name |-> "d", content |-> SampleContent]}
UpdateDiagramDto ==
  {[name |-> "e"], [content |-> EmptyContent]}
ElementData == {[position |-> P5], [name |-> "Bus"]}
Positions == {P5}
Attributes == {speed}
AttributeData == {[type |-> "string"]}
ClassData ==
  {[name |-> "Car", position |-> P0],
   [name |-> "Car", position |-> P0, attributes |-> <<a0, a1, a2>>]}
RelationData ==
  {[from |-> "A", to |-> "B", type |-> "assoc"],
   [from |-> "C", to |-> "A", type |-> "assoc"]}
RelationPatch == {[to |-> "B"]}

(***************************************************************************)
(* JavaScript objects and arrays.                                          *)
(***************************************************************************)
\* { ...a, ...b } and Object.assign(a, b): the keys of b overwrite those of a
Spread(a, b) ==
  [k \in (DOMAIN a) \cup (DOMAIN b) |-> IF k \in DOMAIN b THEN b[k] ELSE a[k]]

\* obj[key] = value
Put(obj, key, value) ==
  [k \in (DOMAIN obj) \cup {key} |-> IF k = key THEN value ELSE obj[k]]

\* delete obj[key]
Delete(obj, key) == [k \in (DOMAIN obj) \ {key} |-> obj[k]]

\* obj?.[key] is truthy (the values stored under the keys are objects)
Has(obj, key) == key \in DOMAIN obj

\* array?.[index] is truthy, index counted from 0
HasIndex(array, index) == index >= 0 /\ index < Len(array)

\* faulty variant: array.pop(), whatever the index
SplicePop(array, index) == SubSeq(array, 1, Len(array) - 1)

\* array.splice(index, 1)
Splice(array, index) ==
  SubSeq(array, 1, index) \o SubSeq(array, index + 2, Len(array))

(***************************************************************************)
(* What a call of the service does: the value it returns or the exception  *)
(* it throws, and the aggregate it hands to diagramsRepository.save.       *)
(***************************************************************************)
Throw(error) == [result |-> error, save |-> FALSE, diagram |-> EmptyObject]
Return(diagram) == [result |-> "ok", save |-> FALSE, diagram |-> diagram]
Save(diagram) == [result |-> "ok", save |-> TRUE, diagram |-> diagram]

\* diagramsRepository.findOne({ where: { id } }): soft-removed rows are not found
FindOneRow(id) ==
  IF id \in DOMAIN diagrams /\ ~diagrams[id].deleted THEN <<diagrams[id]>> ELSE <<>>

\* usersRepository.findOneBy({ id })
FindUser(userId) == IF userId \in Users THEN <<userId>> ELSE <<>>

\* faulty variant: the shared users are not looked at
HasAccessOwnerOnly(diagram, user) == diagram.owner = user

HasAccess(diagram, user) == diagram.owner = user \/ user \in diagram.sharedWith

FindOne(id, user) ==
  LET found == FindOneRow(id)
  IN  IF found = <<>> THEN Throw("NotFound")
      ELSE IF ~HasAccess(found[1], user) THEN Throw("Forbidden")
      ELSE Return(found[1])

\* find({ where: [{ owner: { id: userId } }] })
FindAllByUser(userId) ==
  {id \in DOMAIN diagrams : ~diagrams[id].deleted /\ diagrams[id].owner = userId}

\* faulty variant: withDeleted()
FindSharedWithDeleted(userId) ==
  {id \in DOMAIN diagrams : userId \in diagrams[id].sharedWith}

\* createQueryBuilder ... where("sharedWith.id = :userId") ... getMany()
FindShared(userId) ==
  {id \in DOMAIN diagrams : ~diagrams[id].deleted /\ userId \in diagrams[id].sharedWith}

Create(dto, user) ==
  Save(Spread(dto, [owner |-> user, sharedWith |-> {}, deleted |-> FALSE]))

\* faulty variant: the row is loaded without the access check of findOne
UpdateNoCheck(id, dto, user) ==
  LET found == FindOneRow(id)
  IN  IF found = <<>> THEN Throw("NotFound") ELSE Save(Spread(found[1], dto))

\* Object.assign(diagram, updateDiagramDto)
Update(id, dto, user) ==
  LET f == FindOne(id, user)
  IN  IF f.result # "ok" THEN f ELSE Save(Spread(f.diagram, dto))

Remove(id, user) ==
  LET f == FindOne(id, user)
  IN  IF f.result # "ok" THEN f ELSE Save([f.diagram EXCEPT !.deleted = TRUE])

\* faulty variant: no owner check after findOne
ShareDiagramByMember(id, userId, owner) ==
  LET f == FindOne(id, owner)
      userToShare == FindUser(userId)
  IN  IF f.result # "ok" THEN f
      ELSE IF userToShare = <<>> THEN Throw("NotFound")
      ELSE Save([f.diagram EXCEPT !.sharedWith = @ \cup {userToShare[1]}])

\* faulty variant: diagram.sharedWith = [userToShare]
ShareDiagramReplace(id, userId, owner) ==
  LET f == FindOne(id, owner)
      userToShare == FindUser(userId)
  IN  IF f.result # "ok" THEN f
      ELSE IF f.diagram.owner # owner THEN Throw("Forbidden")
      ELSE IF userToShare = <<>> THEN Throw("NotFound")
      ELSE Save([f.diagram EXCEPT !.sharedWith = {userToShare[1]}])

ShareDiagram(id, userId, owner) ==
  LET f == FindOne(id, owner)
      userToShare == FindUser(userId)
  IN  IF f.result # "ok" THEN f
      ELSE IF f.diagram.owner # owner THEN Throw("Forbidden")
      ELSE IF userToShare = <<>> THEN Throw("NotFound")
      ELSE Save([f.diagram EXCEPT !.sharedWith = @ \cup {userToShare[1]}])

\* if (!diagram.content.elements) diagram.content.elements = {}
InitElements(content) ==
  IF Has(content, "elements") THEN content ELSE Put(content, "elements", EmptyObject)

\* if (!diagram.content.relations) diagram.content.relations = {}
InitRelations(content) ==
  IF Has(content, "relations") THEN content ELSE Put(content, "relations", EmptyObject)

HasElement(content, elementId) ==
  Has(content, "elements") /\ Has(content.elements, elementId)

HasRelation(content, relationId) ==
  Has(content, "relations") /\ Has(content.relations, relationId)

UpdateElement(id, elementId, elementData, user) ==
  LET f == FindOne(id, user)
      content == InitElements(f.diagram.content)
      old == IF Has(content.elements, elementId)
             THEN content.elements[elementId] ELSE EmptyObject
  IN  IF f.result # "ok" THEN f
      ELSE Save([f.diagram EXCEPT !.content =
             Put(content, "elements",
                 Put(content.elements, elementId, Spread(old, elementData)))])

MoveElement(id, elementId, position, user) ==
  UpdateElement(id, elementId, [position |-> position], user)

AddAttribute(id, classId, attribute, user) ==
  LET f == FindOne(id, user)
      content == f.diagram.content
      elem == content.elements[classId]
      attrs == IF Has(elem, "attributes") THEN elem.attributes ELSE <<>>
  IN  IF f.result # "ok" THEN f
      ELSE IF ~HasElement(content, classId) THEN Throw("NotFound")
      ELSE Save([f.diagram EXCEPT !.content.elements[classId] =
             Put(elem, "attributes", Append(attrs, attribute))])

HasAttribute(content, classId, attrIndex) ==
  /\ HasElement(content, classId)
  /\ Has(content.elements[classId], "attributes")
  /\ HasIndex(content.elements[classId].attributes, attrIndex)

UpdateAttribute(id, classId, attrIndex, newData, user) ==
  LET f == FindOne(id, user)
      content == f.diagram.content
  IN  IF f.result # "ok" THEN f
      ELSE IF ~HasAttribute(content, classId, attrIndex) THEN Throw("NotFound")
      ELSE Save([f.diagram EXCEPT
             !.content.elements[classId].attributes[attrIndex + 1] =
               Spread(@, newData)])

RemoveAttribute(id, classId, attrIndex, user) ==
  LET f == FindOne(id, user)
      content == f.diagram.content
  IN  IF f.result # "ok" THEN f
      ELSE IF ~HasAttribute(content, classId, attrIndex) THEN Throw("NotFound")
      ELSE Save([f.diagram EXCEPT
             !.content.elements[classId].attributes = Splice(@, attrIndex)])

\* { ...classData, attributes: classData.attributes || [] }
NewClass(classData) ==
  Put(classData, "attributes",
      IF Has(classData, "attributes") THEN classData.attributes ELSE <<>>)

\* faulty variant: no check that the class exists already
AddClassOverwrite(id, classId, classData, user) ==
  LET f == FindOne(id, user)
      content == InitElements(f.diagram.content)
  IN  IF f.result # "ok" THEN f
      ELSE Save([f.diagram EXCEPT !.content =
             Put(content, "elements",
                 Put(content.elements, classId, NewClass(classData)))])

AddClass(id, classId, classData, user) ==
  LET f == FindOne(id, user)
      content == InitElements(f.diagram.content)
  IN  IF f.result # "ok" THEN f
      ELSE IF Has(content.elements, classId) THEN Throw("Error")
      ELSE Save([f.diagram EXCEPT !.content =
             Put(content, "elements",
                 Put(content.elements, classId, NewClass(classData)))])

\* faulty variant: only rel.from is compared
DetachClassFrom(relations, classId) ==
  [r \in {k \in DOMAIN relations : relations[k].from # classId} |-> relations[r]]

\* the relations left by the loop that deletes those attached to classId
DetachClass(relations, classId) ==
  [r \in {k \in DOMAIN relations :
            ~(relations[k].from = classId \/ relations[k].to = classId)}
     |-> relations[r]]

\* faulty variant: the relations are deleted and saved before the class is looked up
RemoveClassCascadeFirst(id, classId, user) ==
  LET f == FindOne(id, user)
      content == f.diagram.content
      detached == IF Has(content, "relations")
                  THEN Put(content, "relations", DetachClass(content.relations, classId))
                  ELSE content
  IN  IF f.result # "ok" THEN f
      ELSE IF ~HasElement(content, classId)
        THEN [result |-> "Error", save |-> TRUE,
              diagram |-> [f.diagram EXCEPT !.content = detached]]
      ELSE Save([f.diagram EXCEPT !.content =
             Put(detached, "elements", Delete(content.elements, classId))])

RemoveClass(id, classId, user) ==
  LET f == FindOne(id, user)
      content == f.diagram.content
      detached == IF Has(content, "relations")
                  THEN Put(content, "relations", DetachClass(content.relations, classId))
                  ELSE content
  IN  IF f.result # "ok" THEN f
      ELSE IF ~HasElement(content, classId) THEN Throw("Error")
      ELSE Save([f.diagram EXCEPT !.content =
             Put(detached, "elements", Delete(content.elements, classId))])

AddRelation(id, relationId, relationData, user) ==
  LET f == FindOne(id, user)
      content == InitRelations(f.diagram.content)
  IN  IF f.result # "ok" THEN f
      ELSE IF Has(content.relations, relationId) THEN Throw("Error")
      ELSE Save([f.diagram EXCEPT !.content =
             Put(content, "relations",
                 Put(content.relations, relationId, relationData))])

UpdateRelation(id, relationId, relationData, user) ==
  LET f == FindOne(id, user)
      content == f.diagram.content
  IN  IF f.result # "ok" THEN f
      ELSE IF ~HasRelation(content, relationId) THEN Throw("Error")
      ELSE Save([f.diagram EXCEPT !.content.relations[relationId] =
             Spread(@, relationData)])

RemoveRelation(id, relationId, user) ==
  LET f == FindOne(id, user)
      content == f.diagram.content
  IN  IF f.result # "ok" THEN f
      ELSE IF ~HasRelation(content, relationId) THEN Throw("Error")
      ELSE Save([f.diagram EXCEPT !.content.relations =
             Delete(@, relationId)])

(***************************************************************************)
(* The calls of the service, one action per method.  A call runs to its    *)
(* end in one step; last records the call and how it ended.                *)
(***************************************************************************)
Call(op, id, user, key, num, data) ==
  [op |-> op, id |-> id, user |-> user, key |-> key, num |-> num, data |-> data]

\* faulty variant: the elements of the saved copy are merged into those of the stored row
SaveRowMerged(rows, id, diagram) ==
  [i \in (DOMAIN rows) \cup {id} |->
     IF i # id THEN rows[i]
     ELSE IF id \in DOMAIN rows
               /\ Has(rows[id].content, "elements") /\ Has(diagram.content, "elements")
          THEN [diagram EXCEPT !.content.elements = Spread(rows[id].content.elements, @)]
          ELSE diagram]

\* diagramsRepository.save(diagram): the row becomes the aggregate handed in
SaveRow(rows, id, diagram) ==
  [i \in (DOMAIN rows) \cup {id} |-> IF i = id THEN diagram ELSE rows[i]]

\* a call that runs from its read to its save with no other call in between
Commit(call, out) ==
  /\ calls < MaxCalls
  /\ calls' = calls + 1
  /\ diagrams' = IF out.save THEN SaveRow(diagrams, call.id, out.diagram) ELSE diagrams
  /\ last' = Spread(call, [result |-> out.result])
  /\ UNCHANGED <<inflight, writes>>

CreateCall ==
  \E dto \in CreateDiagramDto, user \in Creators :
    /\ Len(diagrams) < MaxDiagrams
    /\ Commit(Call("create", Len(diagrams) + 1, user, "", 0, dto), Create(dto, user))

UpdateCall ==
  \E id \in DiagramIds, dto \in UpdateDiagramDto, user \in Users :
    Commit(Call("update", id, user, "", 0, dto), Update(id, dto, user))

RemoveCall ==
  \E id \in DiagramIds, user \in Users :
    Commit(Call("remove", id, user, "", 0, EmptyObject), Remove(id, user))

ShareDiagramCall ==
  \E id \in DiagramIds, userId \in ShareTargets, user \in Users :
    Commit(Call("shareDiagram", id, user, "", userId, EmptyObject),
           ShareDiagram(id, userId, user))

UpdateElementCall ==
  \E id \in DiagramIds, elementId \in ClassIds, data \in ElementData, user \in Users :
    Commit(Call("updateElement", id, user, elementId, 0, data),
           UpdateElement(id, elementId, data, user))

MoveElementCall ==
  \E id \in DiagramIds, elementId \in ClassIds, position \in Positions, user \in Users :
    Commit(Call("moveElement", id, user, elementId, 0, position),
           MoveElement(id, elementId, position, user))

AddAttributeCall ==
  \E id \in DiagramIds, classId \in ClassIds, attribute \in Attributes, user \in Users :
    Commit(Call("addAttribute", id, user, classId, 0, attribute),
           AddAttribute(id, classId, attribute, user))

UpdateAttributeCall ==
  \E id \in DiagramIds, classId \in ClassIds, attrIndex \in AttrIndexes,
     newData \in AttributeData, user \in Users :
    Commit(Call("updateAttribute", id, user, classId, attrIndex, newData),
           UpdateAttribute(id, classId, attrIndex, newData, user))

RemoveAttributeCall ==
  \E id \in DiagramIds, classId \in ClassIds, attrIndex \in AttrIndexes, user \in Users :
    Commit(Call("removeAttribute", id, user, classId, attrIndex, EmptyObject),
           RemoveAttribute(id, classId, attrIndex, user))

AddClassCall ==
  \E id \in DiagramIds, classId \in ClassIds, classData \in ClassData, user \in Users :
    Commit(Call("addClass", id, user, classId, 0, classData),
           AddClass(id, classId, classData, user))

RemoveClassCall ==
  \E id \in DiagramIds, classId \in ClassIds, user \in Users :
    Commit(Call("removeClass", id, user, classId, 0, EmptyObject),
           RemoveClass(id, classId, user))

AddRelationCall ==
  \E id \in DiagramIds, relationId \in RelationIds, data \in RelationData, user \in Users :
    Commit(Call("addRelation", id, user, relationId, 0, data),
           AddRelation(id, relationId, data, user))

UpdateRelationCall ==
  \E id \in DiagramIds, relationId \in RelationIds, data \in RelationPatch, user \in Users :
    Commit(Call("updateRelation", id, user, relationId, 0, data),
           UpdateRelation(id, relationId, data, user))

RemoveRelationCall ==
  \E id \in DiagramIds, relationId \in RelationIds, user \in Users :
    Commit(Call("removeRelation", id, user, relationId, 0, EmptyObject),
           RemoveRelation(id, relationId, user))

NoCall == Spread(Call("none", 0, 0, "", 0, EmptyObject), [result |-> "ok"])

Idle == [state |-> "idle"]

Init ==
  /\ diagrams = <<>>
  /\ last = NoCall
  /\ calls = 0
  /\ inflight = [p \in Procs |-> Idle]
  /\ writes = <<>>

Next ==
  \/ CreateCall
  \/ UpdateCall
  \/ RemoveCall
  \/ ShareDiagramCall
  \/ UpdateElementCall
  \/ MoveElementCall
  \/ AddAttributeCall
  \/ UpdateAttributeCall
  \/ RemoveAttributeCall
  \/ AddClassCall
  \/ RemoveClassCall
  \/ AddRelationCall
  \/ UpdateRelationCall
  \/ RemoveRelationCall

Spec == Init /\ [][Next]_vars

(***************************************************************************)
(* Two requests served concurrently.  A method awaits twice, at findOne    *)
(* and at save; what lies between runs without interruption.  Begin is a   *)
(* call up to its save: it loads the diagram, checks access and edits its  *)
(* own copy, or throws.  EndCall is the save of that copy.                 *)
(***************************************************************************)
Begin(p, call, out) ==
  /\ inflight[p].state = "idle"
  /\ inflight' = [inflight EXCEPT ![p] =
       [state |-> IF out.save THEN "read" ELSE "failed",
        call |-> call, out |-> out, seen |-> Len(writes)]]
  /\ UNCHANGED <<diagrams, last, calls, writes>>

BeginAddClass(p) ==
  \E id \in DiagramIds, classId \in ClassIds, classData \in ClassData, user \in Users :
    Begin(p, Call("addClass", id, user, classId, 0, classData),
          AddClass(id, classId, classData, user))

BeginAddAttribute(p) ==
  \E id \in DiagramIds, classId \in ClassIds, attribute \in Attributes, user \in Users :
    Begin(p, Call("addAttribute", id, user, classId, 0, attribute),
          AddAttribute(id, classId, attribute, user))

BeginUpdateElement(p) ==
  \E id \in DiagramIds, elementId \in ClassIds, data \in ElementData, user \in Users :
    Begin(p, Call("updateElement", id, user, elementId, 0, data),
          UpdateElement(id, elementId, data, user))

EndCall(p) ==
  /\ inflight[p].state = "read"
  /\ diagrams' = SaveRow(diagrams, inflight[p].call.id, inflight[p].out.diagram)
  /\ inflight' = [inflight EXCEPT ![p].state = "done"]
  /\ writes' = Append(writes, p)
  /\ UNCHANGED <<last, calls>>

NextConc ==
  \/ CreateCall
  \/ \E p \in Procs : BeginAddClass(p)
  \/ \E p \in Procs : BeginAddAttribute(p)
  \/ \E p \in Procs : BeginUpdateElement(p)
  \/ \E p \in Procs : EndCall(p)

SpecConc == Init /\ [][NextConc]_vars

(***************************************************************************)
(* Vocabulary of the properties.                                           *)
(***************************************************************************)
Mutators ==
  {"update", "remove", "shareDiagram", "updateElement", "moveElement", "addClass",
   "removeClass", "addAttribute", "updateAttribute", "removeAttribute",
   "addRelation", "updateRelation", "removeRelation"}

\* a diagram the service can load: its row is stored and not soft-removed
Live(id) == id \in DOMAIN diagrams /\ ~diagrams[id].deleted

Member(id, user) == diagrams[id].owner = user \/ user \in diagrams[id].sharedWith

\* the call recorded by this step was made on a live diagram by a user with access
CalledWithAccess(op) ==
  /\ last'.op = op
  /\ Live(last'.id)
  /\ Member(last'.id, last'.user)

ElementsOf(content) == IF Has(content, "elements") THEN content.elements ELSE EmptyObject
RelationsOf(content) == IF Has(content, "relations") THEN content.relations ELSE EmptyObject

\* C1: findOne(id, user) returns the diagram exactly when the diagram exists (its
\* row is stored and has not been soft-removed) and user is its owner or a member
\* of sharedWith; for any other user it fails with Forbidden, and for an id with
\* no such diagram it fails with NotFound.
C1_FindOneIffOwnerOrShared ==
  \A id \in DiagramIds, user \in Users :
    LET r == FindOne(id, user)
    IN  IF ~Live(id) THEN r.result = "NotFound"
        ELSE IF Member(id, user) THEN r.result = "ok" /\ r.diagram = diagrams[id]
        ELSE r.result = "Forbidden"

C1_Witness ==
  \E id \in DOMAIN diagrams, u \in Users, v \in Users :
    /\ Live(id)
    /\ u # diagrams[id].owner /\ u \in diagrams[id].sharedWith
    /\ v # diagrams[id].owner /\ v \notin diagrams[id].sharedWith
    /\ FindOne(id, u).result = "ok"
    /\ FindOne(id, v).result = "Forbidden"
    /\ FindOne(id, diagrams[id].owner).result = "ok"

\* what every call must satisfy for C2
StepC2 ==
  (/\ last'.op \in Mutators
   /\ Live(last'.id)
   /\ ~Member(last'.id, last'.user))
  => (last'.result = "Forbidden" /\ diagrams' = diagrams)

\* C2: a call of any operation that changes a diagram, made on an existing
\* diagram by a user who is neither its owner nor in sharedWith, fails with
\* Forbidden and leaves every stored diagram as it was.
C2_NoAccessNoChange == [][StepC2]_vars

C2_Witness ==
  /\ last.op = "removeClass"
  /\ last.result = "Forbidden"
  /\ Live(last.id)
  /\ ~Member(last.id, last.user)
  /\ HasElement(diagrams[last.id].content, last.key)

\* what every call must satisfy for C3
StepC3 ==
  /\ (/\ last'.op = "shareDiagram"
      /\ Live(last'.id)
      /\ diagrams[last'.id].owner # last'.user)
     => (last'.result = "Forbidden" /\ diagrams' = diagrams)
  /\ (/\ CalledWithAccess("moveElement")
      /\ diagrams[last'.id].owner # last'.user)
     => (/\ last'.result = "ok"
         /\ diagrams'[last'.id].content.elements[last'.key].position = last'.data)

\* C3: shareDiagram called by anyone but the owner of an existing diagram fails
\* with Forbidden and changes nothing, also when the caller is in sharedWith; a
\* caller in sharedWith can nevertheless mutate, e.g. moveElement succeeds and
\* sets the position.
C3_ShareOwnerOnly == [][StepC3]_vars

C3_Witness ==
  /\ last.op = "shareDiagram"
  /\ last.result = "Forbidden"
  /\ Live(last.id)
  /\ last.user \in diagrams[last.id].sharedWith
  /\ last.user # diagrams[last.id].owner

\* what every call must satisfy for C4
StepC4 ==
  \A id \in DOMAIN diagrams :
    /\ id \in DOMAIN diagrams'
    /\ diagrams'[id].owner = diagrams[id].owner
    /\ \/ diagrams'[id].sharedWith = diagrams[id].sharedWith
       \/ /\ last'.op = "shareDiagram"
          /\ last'.result = "ok"
          /\ last'.id = id
          /\ diagrams'[id].sharedWith = diagrams[id].sharedWith \cup {last'.num}

StepC5 ==
  CalledWithAccess("removeClass") =>
    LET c == last'.key
        pre == diagrams[last'.id].content
        post == diagrams'[last'.id].content
    IN  IF HasElement(pre, c)
        THEN /\ last'.result = "ok"
             /\ DOMAIN post.elements = (DOMAIN pre.elements) \ {c}
             /\ \A e \in DOMAIN post.elements : post.elements[e] = pre.elements[e]
             /\ DOMAIN RelationsOf(post) =
                  {r \in DOMAIN RelationsOf(pre) :
                     pre.relations[r].from # c /\ pre.relations[r].to # c}
             /\ \A r \in DOMAIN RelationsOf(post) :
                  /\ post.relations[r] = pre.relations[r]
                  /\ post.relations[r].from # c
                  /\ post.relations[r].to # c
             /\ Has(post, "relations") = Has(pre, "relations")
        ELSE last'.result = "Error" /\ diagrams' = diagrams

\* C5: removeClass(classId) by a caller with access: when the class is present it
\* deletes that element and exactly the relations whose from or to is classId,
\* every other element and relation staying as it was; when the class is absent
\* it fails and nothing changes.
C5_RemoveClassCascades == [][StepC5]_vars

C5_Witness ==
  /\ last.op = "removeClass"
  /\ last.result = "ok"
  /\ last.key = "A"
  /\ DOMAIN diagrams[last.id].content.elements = {"B", "C"}
  /\ DOMAIN diagrams[last.id].content.relations = {"R3"}

\* what every call must satisfy for C6
StepC6 ==
  CalledWithAccess("addClass") =>
    LET c == last'.key
        d == diagrams[last'.id]
        d2 == diagrams'[last'.id]
    IN  IF HasElement(d.content, c)
        THEN last'.result = "Error" /\ diagrams' = diagrams
        ELSE /\ last'.result = "ok"
             /\ DOMAIN d2.content.elements = DOMAIN ElementsOf(d.content) \cup {c}
             /\ d2.content.elements[c].name = last'.data.name
             /\ d2.content.elements[c].position = last'.data.position
             /\ d2.content.elements[c].attributes =
                  IF "attributes" \in DOMAIN last'.data
                  THEN last'.data.attributes ELSE <<>>
             /\ \A e \in DOMAIN ElementsOf(d.content) :
                  d2.content.elements[e] = d.content.elements[e]
             /\ RelationsOf(d2.content) = RelationsOf(d.content)
             /\ Has(d2.content, "relations") = Has(d.content, "relations")
             /\ [d2 EXCEPT !.content = d.content] = d

\* C6: addClass(classId) by a caller with access fails with the generic error
\* whenever an element with that id is present, however it got there, and then
\* changes nothing; when the id is absent it succeeds and stores the class data
\* with attributes defaulting to the empty list, leaving the other elements and
\* the rest of the diagram as they were.
C6_AddClassRejectsExisting == [][StepC6]_vars

C6_Witness ==
  /\ last.op = "addClass"
  /\ last.result = "Error"
  /\ Live(last.id)
  /\ DOMAIN diagrams[last.id].content.elements = {last.key}
  /\ DOMAIN diagrams[last.id].content.elements[last.key] = {"position"}

\* what every call must satisfy for C7
StepC7 ==
  CalledWithAccess("removeAttribute") =>
    LET c == last'.key
        i == last'.num
        pre == diagrams[last'.id].content
        post == diagrams'[last'.id].content
    IN  IF /\ HasElement(pre, c)
           /\ Has(pre.elements[c], "attributes")
           /\ 0 <= i /\ i < Len(pre.elements[c].attributes)
        THEN LET old == pre.elements[c].attributes
                 new == post.elements[c].attributes
             IN  /\ last'.result = "ok"
                 /\ Len(new) = Len(old) - 1
                 /\ \A j \in 1..Len(new) : new[j] = IF j <= i THEN old[j] ELSE old[j + 1]
                 /\ [diagrams' EXCEPT ![last'.id].content.elements[c].attributes = old]
                      = diagrams
        ELSE last'.result = "NotFound" /\ diagrams' = diagrams

\* C7: removeAttribute(classId, index) by a caller with access, on a class with
\* n attributes: for 0 <= index < n the list loses exactly the attribute at index,
\* the earlier ones keep their place and the later ones move down by one; for a
\* missing class, a missing list or any other index it fails with NotFound and
\* nothing changes.
C7_RemoveAttributeShifts == [][StepC7]_vars

C7_Witness ==
  /\ last.op = "removeAttribute"
  /\ last.result = "ok"
  /\ last.key = "A"
  /\ last.num = 0
  /\ diagrams[last.id].content.elements["A"].attributes = <<a2>>

\* what every call must satisfy for C8
StepC8 == last'.result # "ok" => diagrams' = diagrams

\* C8: a call that ends in an error (NotFound, Forbidden or the generic error)
\* leaves every stored diagram exactly as it was, so a map that was absent from
\* the stored content is still absent.
C8_ErrorMeansNoChange == [][StepC8]_vars

C8_Witness ==
  /\ last.op = "addRelation"
  /\ last.result = "Error"
  /\ Live(last.id)
  /\ ~Has(diagrams[last.id].content, "elements")
  /\ HasRelation(diagrams[last.id].content, last.key)

\* the listings show a stored diagram exactly when it is not deleted
ListedRight ==
  \A id \in DOMAIN diagrams :
    /\ id \in FindAllByUser(diagrams[id].owner) <=> ~diagrams[id].deleted
    /\ \A u \in diagrams[id].sharedWith :
         id \in FindShared(u) <=> ~diagrams[id].deleted

\* what every call must satisfy for C9
StepC9 ==
  /\ \A id \in DOMAIN diagrams :
       /\ id \in DOMAIN diagrams'
       /\ diagrams[id].deleted => diagrams'[id].deleted
  /\ (last'.op = "remove" /\ last'.result = "ok") =>
       /\ last'.id \in DOMAIN diagrams'
       /\ diagrams'[last'.id].deleted

\* C9: a successful remove marks the diagram deleted; a deleted diagram stays
\* deleted and its row stays stored; findAllByUser of the owner and findShared of
\* a member of sharedWith list a stored diagram exactly when it is not deleted.
C9_SoftDeletedStaysHidden == [](ListedRight) /\ [][StepC9]_vars

C9_Witness ==
  \E id \in DOMAIN diagrams, u \in Users :
    /\ diagrams[id].deleted
    /\ u \in diagrams[id].sharedWith
    /\ id \notin FindShared(u)
    /\ id \notin FindAllByUser(diagrams[id].owner)
    /\ last.op = "remove" /\ last.result = "ok"

\* C10: two concurrent calls on the same diagram that both read it before either
\* saved, and both saved: the stored row is the second writer's copy, so a class
\* the first writer added with addClass and the second writer's call did not
\* create is not in it, although both calls ended in success.
C10_LastWriteWins ==
  \A p \in Procs, q \in Procs :
    (/\ writes = <<p, q>>
     /\ inflight[p].seen = 0 /\ inflight[q].seen = 0
     /\ inflight[p].call.id = inflight[q].call.id)
    => LET id == inflight[q].call.id
       IN  /\ inflight[p].out.result = "ok" /\ inflight[q].out.result = "ok"
           /\ diagrams[id] = inflight[q].out.diagram
           /\ (/\ inflight[p].call.op = "addClass"
               /\ inflight[q].call.op \in {"addClass", "updateElement"}
                    => inflight[q].call.key # inflight[p].call.key)
              => ~HasElement(diagrams[id].content, inflight[p].call.key)

C10_Witness ==
  /\ writes = <<1, 2>>
  /\ inflight[1].seen = 0 /\ inflight[2].seen = 0
  /\ inflight[1].call.id = inflight[2].call.id
  /\ inflight[1].call.op = "addClass" /\ inflight[1].call.key = "A"
  /\ inflight[2].call.op = "addClass" /\ inflight[2].call.key = "B"
  /\ DOMAIN diagrams[inflight[2].call.id].content.elements = {"B"}

====
